---- MODULE Spec2Model ----
(***************************************************************************)
(* Behaviour layer of the portfolio site: the early theme initializer      *)
(* (src/unnamed/part_000) and the ModernPortfolio controller               *)
(* (src/js/modern-multipage.js), run on the browser's event loop.          *)
(* Every handler runs to completion, so each action below is one event     *)
(* dispatch or one timer callback.  Time is in milliseconds.               *)
(***************************************************************************)
EXTENDS Integers, Sequences, FiniteSets, TLC

VARIABLES
    storageMode,    \* "ok" | "readonly" (setItem raises) | "denied" (every access raises)
    storage,        \* content of the 'theme' key, Null when absent
    dom,            \* the static page: which expected elements exist
    pc,             \* "head" | "parsing" | "ready" | "failed"
    afTheme,        \* savedTheme captured by the early script's closure
    afListeners,    \* the early script registered its DOMContentLoaded/load fallbacks
    rootAttr,       \* data-theme of <html>
    bodyAttr,       \* data-theme of <body>
    themeClasses,   \* light-theme / dark-theme classes added by the early script
    theme,          \* this.theme
    lightIcon,      \* style.opacity of .light-icon
    darkIcon,       \* style.opacity of .dark-icon
    bodyTransition, \* document.body.style.transition
    ran,            \* initializers of init() that returned, in order
    errors,         \* errors that escaped to the browser, by origin
    handled,        \* errors routed to handleError
    now,            \* Date.now()
    timers,         \* pending setTimeout/setInterval callbacks, in creation order
    overlay,        \* "absent" | "shown" | "hidden" | "removed"
    loadListener,   \* initLoading registered its window 'load' listener
    startTime,      \* startTime captured by initLoading, -1 when not captured
    loadAt,         \* time of the window 'load' event, -1 before it
    hiddenAt,       \* time the overlay received 'hidden', -1 before
    removedAt,      \* time the overlay was removed, -1 before
    loadingComplete,\* this.loadingComplete
    postLoad,       \* post-load initializers that ran, in order
    announcement,   \* the one-shot "page loaded" live element is in the document
    cardIn,         \* the .quick-card received 'fade-in-up'
    ripples,        \* ripple elements in the document
    nextId,         \* elements/timers created so far
    clicks,         \* click events dispatched so far
    lastClick,      \* ripples created by the last click dispatch, -1 before any
    toggles,        \* the theme views before and after each toggleTheme() call
    counterDom,     \* the page's .stat-number[data-count]: "none" | "plain" | "inStatItem"
    target,         \* parseInt of the counter's data-count
    animObserved,   \* the .stat-item is observed by initScrollAnimations' observer
    countObserved,  \* the counter is observed by initStatCounters' observer
    started,        \* animateCounter calls on the counter so far
    anims,          \* per animateCounter call: step, value written, value before it
    text,           \* the counter's textContent, -1 for the page's own text
    navbar,         \* #main-navbar exists
    scrollBtn,      \* #scroll-to-top exists
    scrollY,        \* window.scrollY, also read as window.pageYOffset
    docScrollTop,   \* document.documentElement.scrollTop
    docHeight,      \* document.documentElement.scrollHeight
    innerHeight,    \* window.innerHeight
    sawScroll,      \* a scroll event has been dispatched
    ticking,        \* initNavigation's ticking flag
    rafPending,     \* updateNavbar is queued for the next animation frame
    navScrolled,    \* the navbar carries 'scrolled'
    progress,       \* width of .scroll-progress-bar in percent, <<numerator, denominator>>
    backToTop,      \* .back-to-top carries 'visible'
    scrollBtnShown, \* #scroll-to-top carries 'visible' (isVisible)
    frameWork,      \* scroll work done for the animation frame being prepared
    immediate,      \* the debounced wrapper was made with immediate = true
    timeout,        \* debounce's timeout: 0 for undefined/null, else the timer's id
    inThrottle,     \* throttle's inThrottle (undefined counts as false)
    debounceCalls,  \* calls of the debounced wrapper: time and argument
    throttleCalls,  \* calls of the throttled wrapper: time and argument
    invoked,        \* invocations of the wrapped func, in order
    doc,            \* the page's tabbable elements in tab order: "in"/"out" of the modal
    focus,          \* position in doc of document.activeElement, 0 for the body
    modalOpen,      \* the modal carries 'show'
    keys,           \* Tab key presses since the modal was shown
    lastKey         \* the last Tab key press and what became of it

themeVars == <<rootAttr, bodyAttr, themeClasses, theme, lightIcon, darkIcon, bodyTransition>>
envVars == <<storageMode, dom>>
loadVars == <<overlay, loadListener, startTime, loadAt, hiddenAt, removedAt,
              loadingComplete, postLoad, cardIn>>
clickVars == <<ripples, nextId, clicks, lastClick, toggles>>
counterVars == <<counterDom, target, animObserved, countObserved, started, anims, text>>
scrollVars == <<navbar, scrollBtn, scrollY, docScrollTop, docHeight, innerHeight, sawScroll,
                ticking, rafPending, navScrolled, progress, backToTop, scrollBtnShown,
                frameWork>>
utilVars == <<immediate, timeout, inThrottle, debounceCalls, throttleCalls, invoked>>
focusVars == <<doc, focus, modalOpen, keys, lastKey>>
vars == <<storageMode, storage, dom, pc, afTheme, afListeners, themeVars, ran,
          errors, handled, now, timers, loadVars, announcement, clickVars, counterVars,
          scrollVars, utilVars, focusVars>>

----------------------------------------------------------------------------
(* Bounds of the exploration                                               *)
MaxTime == 1300
MaxClicks == 2
Quantum == 100
StartWindow == 100
MaxTarget == 125
CounterTargets == {3}
MaxScroll == 3
MaxBurst == 2
MaxCalls == 3
MaxEls == 4
MaxAttr == 3
MaxKeys == 3
Args == {"a", "b"}
Wait == 2 * Quantum
Limit == 2 * Quantum
ScrollUnit == 150
ScrollOffsets == {k * ScrollUnit : k \in -1..MaxScroll}
DocTops == {-50, 0, 500}
DocHeights == {300, 900}
Viewports == {300, 600}

(* Program constants                                                       *)
MinLoadTime == 300
HideDelay == 500
RepaintDelay == 50
TransitionDelay == 300
RippleDelay == 600
AnnounceDelay == 1000
EntranceDelay == 200
StatDelay == 300
NavbarThreshold == 100
BackToTopThreshold == 300
ScrollBtnThreshold == 400
Duration == 2000
Steps == 60

Null == "null"

(* NaN, kept apart from every number a counter can hold.                   *)
NaN == -1000000
StoredValues == {"light", "dark", Null, "blue", ""}
Valid == {"light", "dark"}

InitSteps == <<"setTheme", "initLoading", "initNavigation", "initScrollProgress",
               "initBackToTop", "initAnimations", "initInteractions",
               "initPerformance", "initAccessibility">>
PostLoadSteps == <<"initScrollToTop", "initStatCounters", "initPageTransitions",
                   "triggerEntranceAnimations">>

Range(s) == {s[i] : i \in 1..Len(s)}
Max(a, b) == IF a >= b THEN a ELSE b
Min(a, b) == IF a <= b THEN a ELSE b

----------------------------------------------------------------------------
(* Preference read: localStorage.getItem('theme') || 'light'.  null and    *)
(* the empty string are falsy; every other string is returned as it is.    *)
GetThemeOrLight(v) == IF v = Null \/ v = "" THEN "light" ELSE v

(* The pages the controller may be loaded on.                              *)
Pages ==
    {d \in [loading : BOOLEAN, toggle : BOOLEAN, lightIcon : BOOLEAN,
            darkIcon : BOOLEAN, toggleIsBtn : BOOLEAN, bodyAtHead : BOOLEAN] :
        ~d.toggle => (~d.lightIcon /\ ~d.darkIcon /\ ~d.toggleIsBtn)}

(* No scroll work has been done yet.                                        *)
NoWork == [requests |-> 0, navbar |-> 0, progress |-> 0, backToTop |-> 0]

(* No Tab key has been pressed.                                            *)
NoKey == [shift |-> FALSE, open |-> FALSE, from |-> 0, to |-> 0, prevented |-> FALSE]

InitState ==
    /\ pc = "head"
    /\ afTheme = "none"
    /\ afListeners = FALSE
    /\ rootAttr = "unset"
    /\ bodyAttr = "unset"
    /\ themeClasses = {}
    /\ theme = "undefined"
    /\ lightIcon = ""
    /\ darkIcon = ""
    /\ bodyTransition = ""
    /\ ran = <<>>
    /\ errors = <<>>
    /\ handled = <<>>
    /\ now = 0
    /\ timers = <<>>
    /\ overlay = IF dom.loading THEN "shown" ELSE "absent"
    /\ loadListener = FALSE
    /\ startTime = -1
    /\ loadAt = -1
    /\ hiddenAt = -1
    /\ removedAt = -1
    /\ loadingComplete = FALSE
    /\ postLoad = <<>>
    /\ announcement = FALSE
    /\ cardIn = FALSE
    /\ ripples = {}
    /\ nextId = 0
    /\ clicks = 0
    /\ lastClick = -1
    /\ toggles = <<>>
    /\ animObserved = FALSE
    /\ countObserved = FALSE
    /\ started = 0
    /\ anims = <<>>
    /\ text = -1
    /\ scrollY = 0
    /\ docScrollTop = 0
    /\ docHeight = 0
    /\ innerHeight = 0
    /\ sawScroll = FALSE
    /\ ticking = FALSE
    /\ rafPending = FALSE
    /\ navScrolled = FALSE
    /\ progress = <<0, 1>>
    /\ backToTop = FALSE
    /\ scrollBtnShown = FALSE
    /\ frameWork = NoWork
    /\ timeout = 0
    /\ inThrottle = FALSE
    /\ debounceCalls = <<>>
    /\ throttleCalls = <<>>
    /\ invoked = <<>>
    /\ focus = 0
    /\ modalOpen = FALSE
    /\ keys = 0
    /\ lastKey = NoKey

(* A page without a modal, and a default-mode debounced wrapper.           *)
NoModal ==
    /\ immediate = FALSE
    /\ doc = <<"out">>

(* Any page without counters, any stored preference, any storage.          *)
Init ==
    /\ storageMode \in {"ok", "readonly", "denied"}
    /\ storage \in StoredValues
    /\ dom \in Pages
    /\ counterDom = "none"
    /\ target = 0
    /\ navbar = TRUE
    /\ scrollBtn = FALSE
    /\ NoModal
    /\ InitState

----------------------------------------------------------------------------
(* Timers                                                                  *)
Timer(kind, delay, id) == [kind |-> kind, due |-> now + delay, id |-> id]
RemoveAt(q, i) == SubSeq(q, 1, i - 1) \o SubSeq(q, i + 1, Len(q))
Due(q) == {i \in 1..Len(q) : q[i].due <= now}
NextDue(q) == CHOOSE i \in Due(q) :
                 \A j \in Due(q) : q[i].due < q[j].due \/ (q[i].due = q[j].due /\ i <= j)

----------------------------------------------------------------------------
(* Early theme initializer, part_000                                       *)

(* initializeBodyTheme: the body gets savedTheme and a theme class.        *)
ThemeClass(t) == IF t = "dark" THEN "dark-theme" ELSE "light-theme"

AntiFlash ==
    /\ pc = "head"
    /\ pc' = "parsing"
    /\ IF storageMode = "denied"
       THEN \* getItem raises: the catch block falls back to light on the root
            /\ rootAttr' = "light"
            /\ UNCHANGED <<afTheme, afListeners, bodyAttr, themeClasses>>
       ELSE LET savedTheme == GetThemeOrLight(storage) IN
            /\ afTheme' = savedTheme
            /\ rootAttr' = savedTheme
            /\ IF dom.bodyAtHead
               THEN /\ bodyAttr' = savedTheme
                    /\ themeClasses' = {ThemeClass(savedTheme)}
                    /\ afListeners' = FALSE
               ELSE /\ afListeners' = TRUE
                    /\ UNCHANGED <<bodyAttr, themeClasses>>
    /\ UNCHANGED <<envVars, storage, theme, lightIcon, darkIcon, bodyTransition, ran,
                   errors, handled, now, timers, loadVars, announcement, clickVars, counterVars, scrollVars,
                   utilVars, focusVars>>

----------------------------------------------------------------------------
(* Theme controller                                                        *)

(* The theme views as one value, threaded through setTheme; ok is FALSE    *)
(* once a statement has raised, and the statements after it do not run.    *)
ThemeState ==
    [root |-> rootAttr, body |-> bodyAttr, store |-> storage, theme |-> theme,
     light |-> lightIcon, dark |-> darkIcon, ok |-> TRUE]

(* updateThemeIcon: returns when the button is absent; lightIcon.style and *)
(* darkIcon.style raise a TypeError when querySelector returned null.      *)
updateThemeIcon(s) ==
    IF ~dom.toggle THEN s
    ELSE LET l == IF s.theme = "dark" THEN "0" ELSE "1"
             d == IF s.theme = "dark" THEN "1" ELSE "0"
         IN  IF ~dom.lightIcon THEN [s EXCEPT !.ok = FALSE]
             ELSE IF ~dom.darkIcon THEN [s EXCEPT !.light = l, !.ok = FALSE]
             ELSE [s EXCEPT !.light = l, !.dark = d]

(* setTheme up to the repaint timer: attributes, storage write, this.theme, *)
(* icon.  localStorage.setItem raises when the storage is not writable.     *)
setTheme(s, t) ==
    LET s1 == [s EXCEPT !.root = t, !.body = t] IN
    IF storageMode # "ok" THEN [s1 EXCEPT !.ok = FALSE]
    ELSE updateThemeIcon([s1 EXCEPT !.store = t, !.theme = t])

(* The theme views of a theme state.                                       *)
Views(s) == [theme |-> s.theme, root |-> s.root, body |-> s.body, store |-> s.store,
             light |-> s.light, dark |-> s.dark]

(* toggleTheme's choice of the new theme.                                  *)
Opposite(t) == IF t = "light" THEN "dark" ELSE "light"

ApplyTheme(s) ==
    /\ rootAttr' = s.root
    /\ bodyAttr' = s.body
    /\ storage' = s.store
    /\ theme' = s.theme
    /\ lightIcon' = s.light
    /\ darkIcon' = s.dark

(* initLoading: returns early without the overlay, else captures the start *)
(* time and registers the window 'load' listener.                          *)
initLoadingWithoutGuard == [listener |-> TRUE, start |-> now]

initLoading ==
    IF ~dom.loading THEN [listener |-> FALSE, start |-> startTime]
    ELSE [listener |-> TRUE, start |-> now]

----------------------------------------------------------------------------
(* DOMContentLoaded: the early script's body fallback (registered first),  *)
(* then new ModernPortfolio(): constructor and init().                     *)
DomContentLoaded ==
    /\ pc = "parsing"
    /\ themeClasses' = IF afListeners THEN themeClasses \cup {ThemeClass(afTheme)}
                       ELSE themeClasses
    /\ LET body0 == IF afListeners THEN afTheme ELSE bodyAttr IN
       IF storageMode = "denied"
       THEN \* constructor: localStorage.getItem raises, init() is never called
            /\ pc' = "failed"
            /\ errors' = Append(errors, "constructor")
            /\ bodyAttr' = body0
            /\ UNCHANGED <<storage, rootAttr, theme, lightIcon, darkIcon, ran, timers,
                           loadListener, startTime, announcement>>
       ELSE LET t0 == GetThemeOrLight(storage)
                s  == setTheme([ThemeState EXCEPT !.body = body0, !.theme = t0], t0)
            IN  /\ ApplyTheme(s)
                /\ IF ~s.ok
                   THEN \* setTheme raised: the rest of init() does not run
                        /\ pc' = "failed"
                        /\ errors' = Append(errors, "setTheme")
                        /\ UNCHANGED <<ran, timers, loadListener, startTime, announcement>>
                   ELSE /\ pc' = "ready"
                        /\ errors' = errors
                        /\ ran' = InitSteps
                        /\ loadListener' = initLoading.listener
                        /\ startTime' = initLoading.start
                        \* setTheme's repaint timer, announcePageChange's removal
                        /\ timers' = timers \o <<Timer("repaint", RepaintDelay, 0),
                                                 Timer("announce", AnnounceDelay, 0)>>
                        /\ announcement' = TRUE
    \* initAnimations -> initScrollAnimations observes the .stat-item
    /\ animObserved' = (pc' = "ready" /\ counterDom = "inStatItem")
    /\ UNCHANGED <<envVars, afTheme, afListeners, bodyTransition, handled, now,
                   overlay, loadAt, hiddenAt, removedAt, loadingComplete, postLoad,
                   cardIn, clickVars, counterDom, target, countObserved, started, anims, text,
                   scrollVars,
                   utilVars, focusVars>>

----------------------------------------------------------------------------
(* addButtonRipple: appends one ripple element and schedules its removal.  *)
addButtonRipple(st, btn) ==
    [rs |-> st.rs \cup {[id |-> st.n, btn |-> btn, born |-> now]},
     q  |-> Append(st.q, Timer("ripple", RippleDelay, st.n)),
     n  |-> st.n + 1]

ToggleHandlerOn == pc = "ready" /\ dom.toggle /\ "initNavigation" \in Range(ran)
RippleHandlerOn == pc = "ready" /\ "initInteractions" \in Range(ran)

(* Click on #theme-toggle: initNavigation's listener (toggleTheme, then a  *)
(* ripple), then initButtonRipples' listener when the button also matches  *)
(* '.btn, .modern-btn-primary, .modern-btn-outline, .social-btn'.          *)
ClickToggle ==
    /\ ToggleHandlerOn
    /\ clicks < MaxClicks
    /\ clicks' = clicks + 1
    /\ LET s   == setTheme(ThemeState, Opposite(theme))
           st0 == [rs |-> ripples, q |-> timers, n |-> nextId]
           \* setTheme's repaint timer, triggerThemeTransition, addButtonRipple
           st1 == IF s.ok
                  THEN addButtonRipple(
                          [st0 EXCEPT !.q = st0.q \o <<Timer("repaint", RepaintDelay, 0),
                                                       Timer("transition", TransitionDelay, 0)>>],
                          "toggle")
                  ELSE st0
           st2 == IF dom.toggleIsBtn /\ RippleHandlerOn
                  THEN addButtonRipple(st1, "toggle") ELSE st1
       IN  /\ ApplyTheme(s)
           /\ bodyTransition' = IF s.ok THEN "all 0.3s ease" ELSE bodyTransition
           /\ errors' = IF s.ok THEN errors ELSE Append(errors, "toggleTheme")
           /\ ripples' = st2.rs
           /\ timers' = st2.q
           /\ nextId' = st2.n
           /\ lastClick' = st2.n - nextId
           /\ toggles' = Append(toggles, [pre |-> Views(ThemeState), post |-> Views(s)])
    /\ UNCHANGED <<envVars, pc, afTheme, afListeners, themeClasses, ran, handled, now,
                   loadVars, announcement, counterVars, scrollVars,
                   utilVars, focusVars>>

(* Click on a .btn control: initButtonRipples' listener.                   *)
ClickButton ==
    /\ RippleHandlerOn
    /\ clicks < MaxClicks
    /\ clicks' = clicks + 1
    /\ LET st == addButtonRipple([rs |-> ripples, q |-> timers, n |-> nextId], "cta")
       IN  /\ ripples' = st.rs
           /\ timers' = st.q
           /\ nextId' = st.n
           /\ lastClick' = st.n - nextId
    /\ UNCHANGED <<envVars, storage, pc, afTheme, afListeners, themeVars, ran, errors,
                   handled, now, loadVars, announcement, toggles, counterVars, scrollVars,
                   utilVars, focusVars>>

----------------------------------------------------------------------------
(* Window 'load': the early script's fallback listener re-applies the      *)
(* theme it captured to the body; initLoading's listener schedules the     *)
(* hide after the rest of the minimum loading time.                        *)
RemainingTimeIgnoringElapsed(elapsedTime) == MinLoadTime

RemainingTime(elapsedTime) == Max(0, MinLoadTime - elapsedTime)

WindowLoad ==
    /\ pc \in {"ready", "failed"}
    /\ loadAt = -1
    /\ loadAt' = now
    /\ bodyAttr' = IF afListeners THEN afTheme ELSE bodyAttr
    /\ themeClasses' = IF afListeners THEN themeClasses \cup {ThemeClass(afTheme)}
                       ELSE themeClasses
    /\ timers' = IF loadListener
                 THEN Append(timers, Timer("hide", RemainingTime(now - startTime), 0))
                 ELSE timers
    /\ UNCHANGED <<envVars, storage, pc, afTheme, afListeners, rootAttr, theme, lightIcon,
                   darkIcon, bodyTransition, ran, errors, handled, now, overlay,
                   loadListener, startTime, hiddenAt, removedAt, loadingComplete,
                   postLoad, cardIn, announcement, clickVars, counterVars, scrollVars,
                   utilVars, focusVars>>

----------------------------------------------------------------------------
(* Timer callbacks.  A timer runs when its time has come; among timers due *)
(* at the same time the one created first runs first.                      *)

(* The state a timer callback may write.                                   *)
timerVars == <<overlay, hiddenAt, removedAt, loadingComplete, postLoad, cardIn,
               bodyTransition, announcement, ripples, countObserved, started, anims, text>>

(* hideLoading                                                             *)
HideLoading(q) ==
    /\ overlay' = "hidden"
    /\ hiddenAt' = now
    /\ timers' = Append(q, Timer("remove", HideDelay, 0))
    /\ UNCHANGED <<removedAt, loadingComplete, postLoad, cardIn, bodyTransition,
                   announcement, ripples, countObserved, started, anims, text>>

(* hideLoading's timeout: remove the overlay, mark complete, initPostLoad  *)
(* (initStatCounters observes the counter, triggerEntranceAnimations       *)
(* schedules the card's entrance).                                         *)
RemoveLoading(q) ==
    /\ overlay' = "removed"
    /\ removedAt' = now
    /\ loadingComplete' = TRUE
    /\ postLoad' = PostLoadSteps
    /\ countObserved' = (counterDom # "none")
    /\ timers' = Append(q, Timer("entrance", EntranceDelay, 0))
    /\ UNCHANGED <<hiddenAt, cardIn, bodyTransition, announcement, ripples, started,
                   anims, text>>

(* animateCounter's displayed value at a step,                             *)
(*   Math.floor(target * (1 - Math.pow(1 - step / steps, 3))),             *)
(* in IEEE-754 doubles.  Math.pow is implementation-approximated and       *)
(* step / steps is rounded, so the product may fall just below the exact   *)
(* value; the floor then differs from the exact one only when the exact    *)
(* product is an integer, and is one less there (target 125, step 12       *)
(* displays 60).  On the last step 1 - 1 = 0 and Math.pow(0, 3) = 0 are     *)
(* exact, as is any product with target 0.                                 *)
EaseNum(step) == Steps * Steps * Steps - (Steps - step) * (Steps - step) * (Steps - step)
EaseDen == Steps * Steps * Steps

DisplayValuesLinear(t, step) == {(t * step) \div Steps}

DisplayValues(t, step) ==
    LET exact == (t * EaseNum(step)) \div EaseDen IN
    IF t = NaN THEN {NaN}
    ELSE IF step < Steps /\ t # 0 /\ (t * EaseNum(step)) % EaseDen = 0
    THEN {exact, exact - 1}
    ELSE {exact}

(* setInterval takes its delay as a WebIDL long: 2000 / 60 becomes 33.     *)
IntervalDelay == Duration \div Steps

(* animateCounter: starts one interval timer on the counter.               *)
AnimateCounter(q) ==
    /\ started' = started + 1
    /\ anims' = Append(anims, [step |-> 0, value |-> -1, prev |-> -1])
    /\ timers' = Append(q, Timer("interval", IntervalDelay, Len(anims) + 1))

(* The callback's test for its last step.                                  *)
IntervalDoneLate(step) == step > Steps

IntervalDone(step) == step >= Steps

(* The interval callback: one step; the last one clears the timer and      *)
(* writes the target itself.                                               *)
CounterStep(q, id) ==
    LET step == anims[id].step + 1 IN
    \E displayValue \in DisplayValues(target, step) :
        LET shown == IF IntervalDone(step) THEN target ELSE displayValue IN
        /\ anims' = [anims EXCEPT ![id] = [step |-> step, value |-> shown,
                                           prev |-> anims[id].value]]
        /\ text' = shown
        /\ timers' = IF IntervalDone(step) THEN q
                     ELSE Append(q, Timer("interval", IntervalDelay, id))

(* debounce's later: forgets the timer and, in the default mode, invokes   *)
(* func with the arguments of the call that scheduled it.                  *)
Later(id) ==
    /\ timeout' = 0
    /\ invoked' = IF ~immediate
                  THEN Append(invoked, [fn |-> "debounced", at |-> now,
                                        arg |-> debounceCalls[id].arg, call |-> id,
                                        sync |-> FALSE])
                  ELSE invoked

FireTimer ==
    /\ Due(timers) # {}
    /\ LET i == NextDue(timers)
           t == timers[i]
           q == RemoveAt(timers, i)
       IN  /\ IF t.kind \in {"later", "throttle"} THEN TRUE
              ELSE UNCHANGED <<timeout, inThrottle, invoked>>
           /\ CASE t.kind = "hide" -> HideLoading(q)
             [] t.kind = "remove" -> RemoveLoading(q)
             [] t.kind = "later" -> \* debounce's later
                    /\ Later(t.id)
                    /\ inThrottle' = inThrottle
                    /\ timers' = q
                    /\ UNCHANGED timerVars
             [] t.kind = "throttle" -> \* throttle's timeout
                    /\ inThrottle' = FALSE
                    /\ timers' = q
                    /\ UNCHANGED <<timeout, invoked>>
                    /\ UNCHANGED timerVars
             [] t.kind = "entrance" ->
                    /\ cardIn' = TRUE
                    /\ timers' = q
                    /\ UNCHANGED <<overlay, hiddenAt, removedAt, loadingComplete, postLoad,
                                   bodyTransition, announcement, ripples, countObserved,
                                   started, anims, text>>
             [] t.kind = "transition" ->
                    /\ bodyTransition' = ""
                    /\ timers' = q
                    /\ UNCHANGED <<overlay, hiddenAt, removedAt, loadingComplete, postLoad,
                                   cardIn, announcement, ripples, countObserved, started,
                                   anims, text>>
             [] t.kind = "announce" ->
                    /\ announcement' = FALSE
                    /\ timers' = q
                    /\ UNCHANGED <<overlay, hiddenAt, removedAt, loadingComplete, postLoad,
                                   cardIn, bodyTransition, ripples, countObserved, started,
                                   anims, text>>
             [] t.kind = "ripple" ->
                    /\ ripples' = {r \in ripples : r.id # t.id}
                    /\ timers' = q
                    /\ UNCHANGED <<overlay, hiddenAt, removedAt, loadingComplete, postLoad,
                                   cardIn, bodyTransition, announcement, countObserved,
                                   started, anims, text>>
             [] t.kind = "statDelay" -> \* animateStatCounter's timeout
                    /\ AnimateCounter(q)
                    /\ UNCHANGED <<overlay, hiddenAt, removedAt, loadingComplete, postLoad,
                                   cardIn, bodyTransition, announcement, ripples,
                                   countObserved, text>>
             [] t.kind = "interval" ->
                    /\ CounterStep(q, t.id)
                    /\ UNCHANGED <<overlay, hiddenAt, removedAt, loadingComplete, postLoad,
                                   cardIn, bodyTransition, announcement, ripples,
                                   countObserved, started>>
             [] OTHER -> \* setTheme's repaint: display none, reflow, display ''
                    /\ timers' = q
                    /\ UNCHANGED timerVars
    /\ UNCHANGED <<envVars, storage, pc, afTheme, afListeners, rootAttr, bodyAttr,
                   themeClasses, theme, lightIcon, darkIcon, ran, errors, handled, now,
                   loadListener, startTime, loadAt, nextId, clicks, lastClick, toggles,
                   counterDom, target, animObserved, scrollVars,
                   immediate, debounceCalls, throttleCalls, focusVars>>

----------------------------------------------------------------------------
(* Intersection observers                                                  *)

(* initScrollAnimations' observer reports the .stat-item intersecting:     *)
(* animate-in, animateStatCounter (the counter animates 300 ms later),     *)
(* unobserve.                                                              *)
StatItemIntersects ==
    /\ animObserved
    /\ animObserved' = FALSE
    /\ timers' = Append(timers, Timer("statDelay", StatDelay, 0))
    /\ UNCHANGED <<envVars, storage, pc, afTheme, afListeners, themeVars, ran, errors,
                   handled, now, loadVars, announcement, clickVars, counterDom, target,
                   countObserved, started, anims, text, scrollVars,
                   utilVars, focusVars>>

(* initStatCounters' observer reports the counter intersecting:            *)
(* animateCounter, unobserve.                                              *)
CounterIntersects ==
    /\ countObserved
    /\ countObserved' = FALSE
    /\ AnimateCounter(timers)
    /\ UNCHANGED <<envVars, storage, pc, afTheme, afListeners, themeVars, ran, errors,
                   handled, now, loadVars, announcement, clickVars, counterDom, target,
                   animObserved, text, scrollVars,
                   utilVars, focusVars>>

----------------------------------------------------------------------------
(* Scroll listeners                                                        *)

(* window.pageYOffset || document.documentElement.scrollTop                *)
ScrollTop(y, top) == IF y # 0 THEN y ELSE top

ProgressWidthUnclamped(scrollTop, scrollHeight) ==
    IF scrollHeight > 0 THEN <<scrollTop * 100, scrollHeight>> ELSE <<0, 1>>

(* initScrollProgress' listener: scrollPercent is scrollTop / scrollHeight *)
(* * 100 when scrollHeight > 0, else 0; the width is                       *)
(* Math.min(Math.max(scrollPercent, 0), 100).                              *)
ProgressWidth(scrollTop, scrollHeight) ==
    IF scrollHeight > 0
    THEN IF scrollTop * 100 < 0 THEN <<0, 1>>
         ELSE IF scrollTop * 100 > 100 * scrollHeight THEN <<100, 1>>
         ELSE <<scrollTop * 100, scrollHeight>>
    ELSE <<0, 1>>

(* One scroll event with the metrics the browser reports: the listeners of *)
(* initNavigation, initScrollProgress, initBackToTop and, after post-load, *)
(* initScrollToTop, in the order they were registered.  While the          *)
(* callback requested by an earlier event is still pending no frame has    *)
(* been produced since that event, and frameWork counts on: the calls of   *)
(* requestAnimationFrame, of updateNavbar, the writes of the progress      *)
(* width and the updates of the back-to-top control.                       *)
Scroll ==
    /\ pc = "ready"
    /\ rafPending => frameWork.progress < MaxBurst
    /\ LET f == IF rafPending THEN frameWork ELSE NoWork IN
       frameWork' = [f EXCEPT !.requests = @ + (IF ~ticking THEN 1 ELSE 0),
                              !.progress = @ + 1,
                              !.backToTop = @ + 1]
    /\ \E y \in ScrollOffsets, top \in DocTops, h \in DocHeights, ih \in Viewports :
        /\ scrollY' = y
        /\ docScrollTop' = top
        /\ docHeight' = h
        /\ innerHeight' = ih
        /\ sawScroll' = TRUE
        /\ rafPending' = IF ~ticking THEN TRUE ELSE rafPending
        /\ ticking' = TRUE
        /\ progress' = ProgressWidth(ScrollTop(y, top), h - ih)
        /\ backToTop' = (ScrollTop(y, top) > BackToTopThreshold)
        /\ scrollBtnShown' = IF scrollBtn /\ "initScrollToTop" \in Range(postLoad)
                             THEN y > ScrollBtnThreshold ELSE scrollBtnShown
    /\ UNCHANGED <<envVars, storage, pc, afTheme, afListeners, themeVars, ran, errors,
                   handled, now, timers, loadVars, announcement, clickVars, counterVars,
                   navbar, scrollBtn, navScrolled, utilVars, focusVars>>

(* The animation frame runs updateNavbar; navbar.classList raises when the *)
(* navbar is absent, before ticking is reset.                              *)
AnimationFrame ==
    /\ rafPending
    /\ rafPending' = FALSE
    /\ IF navbar
       THEN /\ navScrolled' = (scrollY > NavbarThreshold)
            /\ ticking' = FALSE
            /\ errors' = errors
            /\ frameWork' = [frameWork EXCEPT !.navbar = @ + 1]
       ELSE /\ errors' = Append(errors, "updateNavbar")
            /\ UNCHANGED <<navScrolled, ticking, frameWork>>
    /\ UNCHANGED <<envVars, storage, pc, afTheme, afListeners, themeVars, ran, handled,
                   now, timers, loadVars, announcement, clickVars, counterVars, navbar,
                   scrollBtn, scrollY, docScrollTop, docHeight, innerHeight, sawScroll,
                   progress, backToTop, scrollBtnShown, utilVars, focusVars>>

MinDue(q) == CHOOSE d \in {q[i].due : i \in 1..Len(q)} : \A i \in 1..Len(q) : d <= q[i].due

(* Time passes to the next multiple of Quantum, but never beyond the next  *)
(* pending timer.                                                          *)
Advance ==
    /\ Due(timers) = {}
    /\ pc \in {"ready", "failed"} \/ now < StartWindow
    /\ LET step == ((now \div Quantum) + 1) * Quantum
           next == IF timers # <<>> /\ MinDue(timers) < step THEN MinDue(timers) ELSE step
       IN  /\ next <= MaxTime
           /\ now' = next
    /\ UNCHANGED <<envVars, storage, pc, afTheme, afListeners, themeVars, ran, errors,
                   handled, timers, loadVars, announcement, clickVars, counterVars, scrollVars,
                   utilVars, focusVars>>

(* Time passes until the next pending timer is due.                        *)
AdvanceToTimer ==
    /\ Due(timers) = {}
    /\ timers # <<>>
    /\ now' = MinDue(timers)
    /\ UNCHANGED <<envVars, storage, pc, afTheme, afListeners, themeVars, ran, errors,
                   handled, timers, loadVars, announcement, clickVars, counterVars, scrollVars,
                   utilVars, focusVars>>

(* The theme over the page's life: startup, toggles, the load event.       *)
Next ==
    \/ AntiFlash
    \/ DomContentLoaded
    \/ WindowLoad
    \/ ClickToggle
    \/ FireTimer
    \/ AdvanceToTimer

Spec == Init /\ [][Next]_vars

(* The page-load sequence against the clock.                               *)
NextLoad ==
    \/ AntiFlash
    \/ DomContentLoaded
    \/ WindowLoad
    \/ FireTimer
    \/ Advance

SpecLoad == Init /\ [][NextLoad]_vars

(* Clicks on the ripple controls against the clock, on a page whose        *)
(* startup succeeds.                                                       *)
InitRipple ==
    /\ storageMode = "ok"
    /\ storage \in {"light", Null}
    /\ dom \in {d \in Pages : d.toggle /\ d.lightIcon /\ d.darkIcon /\ ~d.loading /\ ~d.bodyAtHead}
    /\ counterDom = "none"
    /\ target = 0
    /\ navbar = TRUE
    /\ scrollBtn = FALSE
    /\ NoModal
    /\ InitState

NextRipple ==
    \/ AntiFlash
    \/ DomContentLoaded
    \/ ClickToggle
    \/ ClickButton
    \/ FireTimer
    \/ Advance

SpecRipple == InitRipple /\ [][NextRipple]_vars

(* The counter of a page whose startup succeeds, under both observers.     *)
InitCounters ==
    /\ storageMode = "ok"
    /\ storage = Null
    /\ dom \in {d \in Pages : ~d.toggle /\ ~d.bodyAtHead}
    /\ counterDom \in {"plain", "inStatItem"}
    /\ target \in CounterTargets
    /\ navbar = TRUE
    /\ scrollBtn = FALSE
    /\ NoModal
    /\ InitState

NextCounters ==
    \/ AntiFlash
    \/ DomContentLoaded
    \/ WindowLoad
    \/ StatItemIntersects
    \/ CounterIntersects
    \/ FireTimer
    \/ AdvanceToTimer

SpecCounters == InitCounters /\ [][NextCounters]_vars

(* One animation of the counter, for every target.                         *)
InitEase ==
    /\ storageMode = "ok"
    /\ storage = Null
    /\ dom \in {d \in Pages : ~d.toggle /\ ~d.bodyAtHead /\ ~d.loading}
    /\ counterDom = "inStatItem"
    /\ target \in 0..MaxTarget
    /\ navbar = TRUE
    /\ scrollBtn = FALSE
    /\ NoModal
    /\ InitState

NextEase ==
    \/ AntiFlash
    \/ DomContentLoaded
    \/ StatItemIntersects
    \/ FireTimer
    \/ AdvanceToTimer

SpecEase == InitEase /\ [][NextEase]_vars

(* Scrolling a page whose startup succeeds.                                *)
InitScroll ==
    /\ storageMode = "ok"
    /\ storage = Null
    /\ dom \in {d \in Pages : ~d.toggle /\ ~d.bodyAtHead}
    /\ counterDom = "none"
    /\ target = 0
    /\ navbar \in BOOLEAN
    /\ scrollBtn \in BOOLEAN
    /\ NoModal
    /\ InitState

NextScroll ==
    \/ AntiFlash
    \/ DomContentLoaded
    \/ WindowLoad
    \/ Scroll
    \/ AnimationFrame
    \/ FireTimer
    \/ AdvanceToTimer

SpecScroll == InitScroll /\ [][NextScroll]_vars

----------------------------------------------------------------------------
(* The data-count attribute                                                *)

Chars == {"-", "0", "7", "x"}
Digits == <<"0", "1", "2", "3", "4", "5", "6", "7", "8", "9">>
DataCounts == UNION {[1..n -> Chars] : n \in 0..MaxAttr}

IsDigit(c) == \E d \in 1..Len(Digits) : Digits[d] = c
DigitValue(c) == (CHOOSE d \in 1..Len(Digits) : Digits[d] = c) - 1

(* The value of the longest prefix of digits of s after acc, NaN when      *)
(* there is none and none was read before.                                 *)
RECURSIVE ParseDigits(_, _, _, _)
ParseDigits(s, radix, acc, any) ==
    IF s # <<>> /\ IsDigit(s[1])
    THEN ParseDigits(Tail(s), radix, acc * radix + DigitValue(s[1]), TRUE)
    ELSE IF any THEN acc ELSE NaN

(* parseInt(string) with no radix: an optional sign, an optional 0x, then  *)
(* the digits up to the first other character.                             *)
ParseInt(s) ==
    LET negative == s # <<>> /\ s[1] = "-"
        body == IF negative THEN Tail(s) ELSE s
        hex == Len(body) >= 2 /\ body[1] = "0" /\ body[2] = "x"
        magnitude == IF hex THEN ParseDigits(SubSeq(body, 3, Len(body)), 16, 0, FALSE)
                     ELSE ParseDigits(body, 10, 0, FALSE)
    IN  IF magnitude = NaN THEN NaN
        ELSE IF negative THEN 0 - magnitude ELSE magnitude

(* One animation of a counter, for every content of data-count; a timer    *)
(* that is due runs, and time passes.                                      *)
InitTerm ==
    /\ storageMode = "ok"
    /\ storage = Null
    /\ dom \in {d \in Pages : ~d.toggle /\ ~d.bodyAtHead /\ ~d.loading}
    /\ counterDom = "inStatItem"
    /\ target \in {ParseInt(s) : s \in DataCounts}
    /\ navbar = TRUE
    /\ scrollBtn = FALSE
    /\ NoModal
    /\ InitState

NextTerm ==
    \/ AntiFlash
    \/ DomContentLoaded
    \/ StatItemIntersects
    \/ FireTimer
    \/ AdvanceToTimer

SpecTerm ==
    InitTerm /\ [][NextTerm]_vars /\ WF_vars(FireTimer) /\ WF_vars(AdvanceToTimer)

----------------------------------------------------------------------------
(* Utility wrappers                                                        *)

(* clearTimeout(timeout): the timer with that id is no longer pending;     *)
(* undefined and null name no timer.                                       *)
clearTimeoutNothing(q, id) == q

clearTimeout(q, id) == SelectSeq(q, LAMBDA t : ~(t.kind = "later" /\ t.id = id))

(* One call of the function returned by debounce(func, Wait, immediate).   *)
DebouncedCall ==
    /\ pc = "ready"
    /\ Len(debounceCalls) < MaxCalls
    /\ \E arg \in Args :
        LET k == Len(debounceCalls) + 1
            callNow == immediate /\ timeout = 0
        IN  /\ debounceCalls' = Append(debounceCalls, [at |-> now, arg |-> arg])
            /\ timers' = Append(clearTimeout(timers, timeout), Timer("later", Wait, k))
            /\ timeout' = k
            /\ invoked' = IF callNow
                          THEN Append(invoked, [fn |-> "debounced", at |-> now, arg |-> arg,
                                                call |-> k, sync |-> TRUE])
                          ELSE invoked
    /\ UNCHANGED <<envVars, storage, pc, afTheme, afListeners, themeVars, ran, errors,
                   handled, now, loadVars, announcement, clickVars, counterVars, scrollVars,
                   immediate, inThrottle, throttleCalls, focusVars>>

(* throttle's test of inThrottle.                                          *)
throttleOpenAlways(flag) == TRUE

throttleOpen(flag) == ~flag

(* One call of the function returned by throttle(func, Limit).             *)
ThrottledCall ==
    /\ pc = "ready"
    /\ Len(throttleCalls) < MaxCalls
    /\ \E arg \in Args :
        LET k == Len(throttleCalls) + 1 IN
        /\ throttleCalls' = Append(throttleCalls, [at |-> now, arg |-> arg])
        /\ IF throttleOpen(inThrottle)
           THEN /\ invoked' = Append(invoked, [fn |-> "throttled", at |-> now, arg |-> arg,
                                               call |-> k, sync |-> TRUE])
                /\ inThrottle' = TRUE
                /\ timers' = Append(timers, Timer("throttle", Limit, k))
           ELSE UNCHANGED <<invoked, inThrottle, timers>>
    /\ UNCHANGED <<envVars, storage, pc, afTheme, afListeners, themeVars, ran, errors,
                   handled, now, loadVars, announcement, clickVars, counterVars, scrollVars,
                   immediate, timeout, debounceCalls, focusVars>>

(* A page whose startup succeeds, for the utilities.                       *)
PlainPage ==
    /\ storageMode = "ok"
    /\ storage = Null
    /\ dom \in {d \in Pages : ~d.toggle /\ ~d.bodyAtHead /\ ~d.loading}
    /\ counterDom = "none"
    /\ target = 0
    /\ navbar = TRUE
    /\ scrollBtn = FALSE

(* A debounced function called against the clock, in either mode.          *)
InitDebounce ==
    /\ PlainPage
    /\ immediate \in BOOLEAN
    /\ doc = <<"out">>
    /\ InitState

NextDebounce ==
    \/ AntiFlash
    \/ DomContentLoaded
    \/ DebouncedCall
    \/ FireTimer
    \/ Advance

SpecDebounce == InitDebounce /\ [][NextDebounce]_vars

(* A throttled function called against the clock.                          *)
InitThrottle ==
    /\ PlainPage
    /\ NoModal
    /\ InitState

NextThrottle ==
    \/ AntiFlash
    \/ DomContentLoaded
    \/ ThrottledCall
    \/ FireTimer
    \/ Advance

SpecThrottle == InitThrottle /\ [][NextThrottle]_vars

----------------------------------------------------------------------------
(* Focus management                                                        *)

(* The modal is one subtree: its tabbable descendants are consecutive in   *)
(* the tab order.  Each of them matches trapFocus' selector.  The first    *)
(* tabbable element of every page is the skip link initSkipLinks inserts   *)
(* as the body's first child.                                              *)
Contiguous(d) ==
    \A i, j \in 1..Len(d) :
        (i < j /\ d[i] = "in" /\ d[j] = "in") => \A m \in i..j : d[m] = "in"

Docs == {d \in UNION {[1..n -> {"in", "out"}] : n \in 1..MaxEls} :
            d[1] = "out" /\ Contiguous(d)}

Undefined == -1

(* container.querySelectorAll(...), in document order.                     *)
focusableElements == SelectSeq([i \in 1..Len(doc) |-> i], LAMBDA i : doc[i] = "in")
firstElement ==
    IF Len(focusableElements) > 0 THEN focusableElements[1] ELSE Undefined
lastElement ==
    IF Len(focusableElements) > 0 THEN focusableElements[Len(focusableElements)]
    ELSE Undefined

(* trapFocus: wraps at the two ends, otherwise leaves the key alone.       *)
trapFocus(shiftKey) ==
    IF shiftKey /\ focus = firstElement THEN [prevented |-> TRUE, to |-> lastElement]
    ELSE IF ~shiftKey /\ focus = lastElement THEN [prevented |-> TRUE, to |-> firstElement]
    ELSE [prevented |-> FALSE, to |-> focus]

(* The browser's own Tab / Shift+Tab: the next or previous element in tab  *)
(* order, leaving the page (0) past either end.                            *)
DefaultTab(from, shiftKey) ==
    IF shiftKey THEN (IF from = 0 THEN Len(doc) ELSE from - 1)
    ELSE (IF from = Len(doc) THEN 0 ELSE from + 1)

(* The user focuses an element, or the body, while no modal is shown.      *)
FocusElement ==
    /\ pc = "ready"
    /\ ~modalOpen
    /\ \E e \in 0..Len(doc) : focus' = e
    /\ UNCHANGED <<envVars, storage, pc, afTheme, afListeners, themeVars, ran, errors,
                   handled, now, timers, loadVars, announcement, clickVars, counterVars,
                   scrollVars, utilVars, doc, modalOpen, keys, lastKey>>

(* The modal is shown; this code does not move the focus.                  *)
OpenModal ==
    /\ pc = "ready"
    /\ ~modalOpen
    /\ modalOpen' = TRUE
    /\ keys' = 0
    /\ UNCHANGED <<envVars, storage, pc, afTheme, afListeners, themeVars, ran, errors,
                   handled, now, timers, loadVars, announcement, clickVars, counterVars,
                   scrollVars, utilVars, doc, focus, lastKey>>

CloseModal ==
    /\ modalOpen
    /\ modalOpen' = FALSE
    /\ keys' = 0
    /\ UNCHANGED <<envVars, storage, pc, afTheme, afListeners, themeVars, ran, errors,
                   handled, now, timers, loadVars, announcement, clickVars, counterVars,
                   scrollVars, utilVars, doc, focus, lastKey>>

(* keydown with key 'Tab': initFocusManagement's listener, then the        *)
(* browser's default action unless it was prevented.                       *)
PressTab ==
    /\ pc = "ready"
    /\ keys < MaxKeys
    /\ keys' = keys + 1
    /\ \E shiftKey \in BOOLEAN :
        LET r == IF modalOpen THEN trapFocus(shiftKey)
                 ELSE [prevented |-> FALSE, to |-> focus]
            to == IF r.prevented THEN r.to ELSE DefaultTab(focus, shiftKey)
        IN  /\ focus' = to
            /\ lastKey' = [shift |-> shiftKey, open |-> modalOpen, from |-> focus,
                           to |-> to, prevented |-> r.prevented]
    /\ UNCHANGED <<envVars, storage, pc, afTheme, afListeners, themeVars, ran, errors,
                   handled, now, timers, loadVars, announcement, clickVars, counterVars,
                   scrollVars, utilVars, doc, modalOpen>>

(* Tab keys on a page with a modal.                                        *)
InitFocus ==
    /\ PlainPage
    /\ immediate = FALSE
    /\ doc \in Docs
    /\ InitState

NextFocus ==
    \/ AntiFlash
    \/ DomContentLoaded
    \/ FocusElement
    \/ OpenModal
    \/ CloseModal
    \/ PressTab
    \/ FireTimer
    \/ AdvanceToTimer

SpecFocus == InitFocus /\ [][NextFocus]_vars

----------------------------------------------------------------------------
(* Properties                                                              *)

IconsShow(t) ==
    dom.toggle => /\ (darkIcon = "1" /\ lightIcon = "0") <=> (t = "dark")
                  /\ (darkIcon = "0" /\ lightIcon = "1") <=> (t # "dark")

(* C1: in every state after startup and after any toggles, the root        *)
(* attribute, the body attribute, the stored value and the icon visibility *)
(* all denote this.theme.                                                  *)
C1_ThemeViewsAgree ==
    pc = "ready" => /\ rootAttr = theme
                    /\ bodyAttr = theme
                    /\ storage = theme
                    /\ IconsShow(theme)

(* C2: for every stored content the theme applied at startup, by the early *)
(* script and by the controller, is light or dark, and it is light when    *)
(* the stored value is absent or not a valid theme.                        *)
C2_StartupThemeValid ==
    /\ (pc # "head" /\ storageMode # "denied") => rootAttr \in Valid
    /\ (pc = "parsing" /\ storage \notin Valid) => rootAttr = "light"
    /\ theme # "undefined" => theme \in Valid

Core(v) == <<v.theme, v.root, v.body, v.store>>

(* C3: each toggleTheme() sets this.theme, the root attribute and the      *)
(* stored value to the other theme, two consecutive calls restore the      *)
(* theme, the root/body attributes and the stored value, and with no       *)
(* stored preference the first toggle goes from light to dark.             *)
C3_ToggleInvolution ==
    \A k \in 1..Len(toggles) :
        LET e == toggles[k] IN
        /\ e.post.theme \in Valid /\ e.post.theme # e.pre.theme
        /\ e.post.root = e.post.theme /\ e.post.store = e.post.theme
        /\ (k < Len(toggles) /\ toggles[k + 1].pre = e.post)
              => Core(toggles[k + 1].post) = Core(e.pre)
        /\ (k = 1 /\ afTheme = "light") => (e.pre.root = "light" /\ e.post.root = "dark"
                                             /\ e.post.store = "dark")

(* C4: when the storage is unavailable no error escapes startup or a       *)
(* toggle, the theme falls back to light and the rest of init still runs.  *)
C4_StorageFailureContained ==
    (storageMode # "ok" /\ pc \in {"ready", "failed"})
        => /\ errors = <<>>
           /\ theme = "light"
           /\ rootAttr = "light"
           /\ ran = InitSteps

(* C5: with a loading overlay and the load event d ms after startup, the   *)
(* overlay is hidden at max(300, d) and not before, removed exactly 500 ms *)
(* after that, loadingComplete is true exactly from the removal on, and    *)
(* the post-load initializers have run only once the overlay is removed.   *)
C5_LoadingSequence ==
    startTime # -1 =>
        LET d == loadAt - startTime
            hideTime == startTime + Max(MinLoadTime, d)
        IN  /\ (overlay = "shown" /\ loadAt # -1) => now <= hideTime
            /\ overlay = "shown" <=> hiddenAt = -1
            /\ hiddenAt # -1 => (loadAt # -1 /\ hiddenAt = hideTime
                                 /\ hiddenAt >= startTime + MinLoadTime)
            /\ overlay = "hidden" => (removedAt = -1 /\ now <= hiddenAt + HideDelay)
            /\ overlay = "removed" <=> removedAt # -1
            /\ removedAt # -1 => removedAt = hiddenAt + HideDelay
            /\ loadingComplete <=> removedAt # -1
            /\ postLoad = IF loadingComplete THEN PostLoadSteps ELSE <<>>
            /\ cardIn => (loadingComplete /\ now >= removedAt + EntranceDelay)

(* The scenario of the specification: load 50 ms after startup, hidden at  *)
(* 300 ms, removed at 800 ms, post-load work done.                         *)
C5_Witness ==
    /\ startTime # -1
    /\ loadAt = startTime + 50
    /\ hiddenAt = startTime + 300
    /\ removedAt = startTime + 800
    /\ loadingComplete
    /\ cardIn

(* C6: without a loading overlay initLoading registers nothing, the load   *)
(* sequence never runs (loadingComplete stays false, no post-load          *)
(* initializer runs) and every later step of init has run at startup.      *)
C6_NoOverlaySkipsLoading ==
    (~dom.loading /\ "initLoading" \in Range(ran))
        => /\ ~loadListener
           /\ startTime = -1
           /\ \A i \in 1..Len(timers) : timers[i].kind \notin {"hide", "remove", "entrance"}
           /\ overlay = "absent"
           /\ hiddenAt = -1 /\ removedAt = -1
           /\ ~loadingComplete
           /\ postLoad = <<>>
           /\ ~cardIn
           /\ ran = InitSteps

C6_Witness ==
    /\ ~dom.loading
    /\ pc = "ready"
    /\ loadAt # -1
    /\ now >= loadAt + MinLoadTime + HideDelay + EntranceDelay
    /\ timers = <<>>

(* C10: every ripple is removed 600 ms after its creation by its own       *)
(* timer, so a ripple is present exactly while its timer is pending, and   *)
(* one click on one control creates exactly one ripple.                    *)
C10_RipplesRemovedOnePerClick ==
    /\ \A r \in ripples :
          /\ now <= r.born + RippleDelay
          /\ \E i \in 1..Len(timers) :
                timers[i] = [kind |-> "ripple", due |-> r.born + RippleDelay, id |-> r.id]
    /\ \A i \in 1..Len(timers) :
          timers[i].kind = "ripple" => \E r \in ripples : r.id = timers[i].id
    /\ lastClick \in {-1, 1}

(* C7: animateCounter is started at most once on each counter element,     *)
(* also for a counter inside a .stat-item, and two interval timers never   *)
(* write the same counter at the same time.                                *)
C7_CounterAnimatesOnce ==
    /\ started <= 1
    /\ Cardinality({i \in 1..Len(timers) : timers[i].kind = "interval"}) <= 1

Cube(n) == n * n * n
CubicFloor(t, s) == (t * (Cube(60) - Cube(60 - s))) \div Cube(60)
CubicIsWhole(t, s) == (t * (Cube(60) - Cube(60 - s))) % Cube(60) = 0

(* C8 as claimed: at every step s of 1..60 the displayed value is          *)
(* floor(target * (60^3 - (60 - s)^3) / 60^3), the values never decrease,  *)
(* never exceed the target, and the value after step 60 is the target.     *)
C8_DisplayedIsExactCubic ==
    \A id \in 1..Len(anims) :
        LET a == anims[id] IN
        a.step >= 1 =>
            /\ a.value = CubicFloor(target, a.step)
            /\ a.step >= 2 => a.value >= a.prev
            /\ a.value <= target
            /\ a.step = 60 => (a.value = target /\ text = target)

(* C8 amended: the displayed value is that floor, or one less at a step    *)
(* before the last where target * (60^3 - (60 - s)^3) / 60^3 is a whole    *)
(* number (the floating-point product may fall just below it); the values  *)
(* never decrease, stay within 0..target, and the value after step 60 is   *)
(* the target.                                                             *)
C8_DisplayedIsCubicUpToRounding ==
    \A id \in 1..Len(anims) :
        LET a == anims[id] IN
        a.step >= 1 =>
            /\ \/ a.value = CubicFloor(target, a.step)
               \/ /\ a.value = CubicFloor(target, a.step) - 1
                  /\ a.step < 60 /\ target > 0 /\ CubicIsWhole(target, a.step)
            /\ a.step >= 2 => a.value >= a.prev
            /\ a.value >= 0 /\ a.value <= target
            /\ a.step <= 60
            /\ a.step = 60 => (a.value = target /\ text = target)

(* The specification's example: a counter with target 100 at the end of    *)
(* its animation.                                                          *)
C8_Witness ==
    /\ target = 100
    /\ Len(anims) = 1
    /\ anims[1].step = 60
    /\ anims[1].prev = 99
    /\ text = 100
    /\ \A i \in 1..Len(timers) : timers[i].kind # "interval"

(* C9: after every scroll event, whatever the raw offset and scrollable    *)
(* height, the progress-bar width is within 0..100 percent, and it is 0    *)
(* when the scrollable height is not positive.                             *)
C9_ProgressWithinBounds ==
    /\ progress[2] > 0
    /\ 0 <= progress[1]
    /\ progress[1] <= 100 * progress[2]
    /\ (sawScroll /\ docHeight - innerHeight <= 0) => progress[1] = 0

(* A scroll event with an offset beyond the scrollable height.             *)
C9_Witness ==
    /\ sawScroll
    /\ docHeight - innerHeight > 0
    /\ scrollY > docHeight - innerHeight
    /\ progress = <<100, 1>>

(* C11: when an expected element (loading screen, navbar, theme toggle,    *)
(* scroll-to-top button) is absent its feature is skipped and no error is  *)
(* raised, neither in init nor in any later scroll or animation-frame      *)
(* callback.                                                               *)
C11_AbsentElementsSkipped ==
    /\ pc # "failed"
    /\ errors = <<>>
    /\ ~dom.loading => (~loadListener /\ postLoad = <<>>)
    /\ ~scrollBtn => ~scrollBtnShown
    /\ ~navbar => ~navScrolled

(* The button exists and one of its icon children does not.                *)
IconMissing == dom.toggle /\ ~(dom.lightIcon /\ dom.darkIcon)

(* C12: updateThemeIcon, and so setTheme and toggleTheme, never raises     *)
(* when the toggle button or one of its icon children is absent: the icon  *)
(* update is a no-op and the root attribute, the stored value and          *)
(* this.theme are still updated.                                           *)
C12_IconUpdateNeverThrows ==
    (storageMode = "ok" /\ (~dom.toggle \/ IconMissing)) =>
        /\ errors = <<>>
        /\ pc # "failed"
        /\ pc = "ready" => (rootAttr = theme /\ storage = theme)
        /\ \A k \in 1..Len(toggles) :
              /\ toggles[k].post.theme = Opposite(toggles[k].pre.theme)
              /\ toggles[k].post.root = toggles[k].post.theme
              /\ toggles[k].post.store = toggles[k].post.theme

(* setTheme, the first initializer of init, raises on this page.           *)
SetThemeRaises == storageMode = "readonly" \/ (storageMode = "ok" /\ IconMissing)

(* C13: when an initializer called by init raises, the error is routed to  *)
(* handleError and every initializer after it in init still runs.          *)
C13_InitFailureContained ==
    (SetThemeRaises /\ pc \in {"ready", "failed"}) =>
        /\ "setTheme" \in Range(handled)
        /\ \A k \in 2..Len(InitSteps) : InitSteps[k] \in Range(ran)

(* C14: scroll work is coalesced to at most once per animation frame: for  *)
(* any number of scroll events before a frame, the navbar update, the      *)
(* progress-width update and the back-to-top update each run at most once; *)
(* at most one frame callback is pending, ticking is true iff one is       *)
(* pending, and once it has run the navbar is 'scrolled' iff the offset    *)
(* read in it exceeds 100.                                                 *)
C14_ScrollWorkOncePerFrame ==
    /\ frameWork.navbar <= 1
    /\ frameWork.progress <= 1
    /\ frameWork.backToTop <= 1
    /\ navbar => /\ frameWork.requests <= 1
                 /\ ticking <=> rafPending
                 /\ (sawScroll /\ ~rafPending) => (navScrolled <=> scrollY > NavbarThreshold)

Debounced == {i \in 1..Len(invoked) : invoked[i].fn = "debounced"}
EndsBurst(k) ==
    k = Len(debounceCalls) \/ debounceCalls[k + 1].at >= debounceCalls[k].at + Wait
StartsBurst(k) ==
    k = 1 \/ debounceCalls[k].at >= debounceCalls[k - 1].at + Wait

(* C15: a debounced function in the default mode is invoked exactly once   *)
(* per burst of calls less than Wait apart, Wait after the last call of    *)
(* the burst, with that call's argument, and never during the burst; in    *)
(* immediate mode it is invoked synchronously on the first call of a burst *)
(* only, never by the timer, and again only after Wait without a call.     *)
C15_DebounceOncePerBurst ==
    /\ \A i, j \in Debounced : invoked[i].call = invoked[j].call => i = j
    /\ \A i \in Debounced :
          LET k == invoked[i].call IN
          /\ k \in 1..Len(debounceCalls)
          /\ invoked[i].arg = debounceCalls[k].arg
          /\ invoked[i].sync = immediate
          /\ ~immediate => /\ invoked[i].at = debounceCalls[k].at + Wait
                           /\ EndsBurst(k)
                           /\ \A c \in 1..Len(debounceCalls) :
                                 ~(/\ debounceCalls[c].at < invoked[i].at
                                   /\ invoked[i].at < debounceCalls[c].at + Wait)
          /\ immediate => /\ invoked[i].at = debounceCalls[k].at
                          /\ StartsBurst(k)
    /\ \A k \in 1..Len(debounceCalls) :
          /\ (/\ ~immediate
              /\ IF k < Len(debounceCalls)
                 THEN debounceCalls[k + 1].at > debounceCalls[k].at + Wait
                 ELSE now > debounceCalls[k].at + Wait)
                => \E i \in Debounced : invoked[i].call = k
          /\ (/\ immediate
              /\ k = 1 \/ debounceCalls[k].at > debounceCalls[k - 1].at + Wait)
                => \E i \in Debounced : invoked[i].call = k
    /\ timeout # 0 <=> \E n \in 1..Len(timers) : timers[n].kind = "later"
    /\ Cardinality({n \in 1..Len(timers) : timers[n].kind = "later"}) <= 1

(* A burst of three calls less than Wait apart, then silence: one          *)
(* invocation, with the last call's argument, which the first did not have.*)
C15_Witness ==
    /\ ~immediate
    /\ Len(debounceCalls) = 3
    /\ debounceCalls[1].at < debounceCalls[2].at
    /\ debounceCalls[2].at < debounceCalls[1].at + Wait
    /\ debounceCalls[2].at < debounceCalls[3].at
    /\ debounceCalls[3].at < debounceCalls[2].at + Wait
    /\ debounceCalls[3].arg # debounceCalls[1].arg
    /\ Len(invoked) = 1
    /\ invoked[1].arg = debounceCalls[3].arg
    /\ invoked[1].at = debounceCalls[3].at + Wait

Throttled == {i \in 1..Len(invoked) : invoked[i].fn = "throttled"}

(* C16: a throttled function is invoked immediately by a call made outside *)
(* the throttle window, which opens a window of Limit; calls inside an     *)
(* open window are ignored for good and do not extend it; any two          *)
(* invocations are at least Limit apart and a call made after the window   *)
(* has closed is invoked immediately.                                      *)
C16_ThrottleWindow ==
    /\ \A i, j \in Throttled : invoked[i].call = invoked[j].call => i = j
    /\ \A i \in Throttled :
          LET k == invoked[i].call IN
          /\ k \in 1..Len(throttleCalls)
          /\ invoked[i].sync
          /\ invoked[i].at = throttleCalls[k].at
          /\ invoked[i].arg = throttleCalls[k].arg
    /\ \A i, j \in Throttled : i < j => invoked[j].at >= invoked[i].at + Limit
    /\ \A k \in 1..Len(throttleCalls) :
          /\ (\A i \in Throttled :
                 invoked[i].call < k => throttleCalls[k].at > invoked[i].at + Limit)
                => \E i \in Throttled : invoked[i].call = k
          /\ (\E i \in Throttled :
                 /\ invoked[i].call < k
                 /\ throttleCalls[k].at < invoked[i].at + Limit)
                => ~\E i \in Throttled : invoked[i].call = k
    /\ inThrottle <=> \E n \in 1..Len(timers) : timers[n].kind = "throttle"
    /\ inThrottle => /\ Throttled # {}
                     /\ now <= invoked[Len(invoked)].at + Limit

(* Three calls: the first is invoked, the second falls in its window and   *)
(* is ignored, the third comes after the window closed, less than Limit    *)
(* after the ignored one, and is invoked.                                  *)
C16_Witness ==
    /\ Len(throttleCalls) = 3
    /\ throttleCalls[1].at < throttleCalls[2].at
    /\ throttleCalls[2].at < throttleCalls[1].at + Limit
    /\ throttleCalls[3].at > throttleCalls[1].at + Limit
    /\ throttleCalls[3].at < throttleCalls[2].at + Limit
    /\ Len(invoked) = 2
    /\ invoked[1].call = 1
    /\ invoked[2].call = 3

(* C17: while the modal is open, after any Tab / Shift+Tab presses the     *)
(* focused element is one of the modal's focusable descendants, whichever  *)
(* element had focus when it opened and also with zero or one focusable    *)
(* descendant; Tab on the last goes to the first, Shift+Tab on the first   *)
(* to the last; with no modal open the handler changes neither focus nor   *)
(* the default Tab behaviour.                                              *)
C17_FocusTrapped ==
    /\ (modalOpen /\ keys >= 1) => (focus # 0 /\ doc[focus] = "in")
    /\ (lastKey # NoKey /\ lastKey.open) =>
          /\ (~lastKey.shift /\ lastKey.from = lastElement) => lastKey.to = firstElement
          /\ (lastKey.shift /\ lastKey.from = firstElement) => lastKey.to = lastElement
    /\ (lastKey # NoKey /\ ~lastKey.open) =>
          /\ ~lastKey.prevented
          /\ lastKey.to = DefaultTab(lastKey.from, lastKey.shift)

IntervalTimers(id) ==
    {n \in 1..Len(timers) : timers[n].kind = "interval" /\ timers[n].id = id}
AllDone == anims # <<>> /\ \A id \in 1..Len(anims) : anims[id].step = Steps

(* C18: every counter animation terminates: its interval timer fires       *)
(* exactly 60 times and is then cleared, for every value of data-count     *)
(* (zero, negative and non-numeric included); nothing of the animation     *)
(* writes the text afterwards, and the final text is the parsed target.    *)
C18_CounterAnimationTerminates ==
    /\ [](\A id \in 1..Len(anims) :
            /\ anims[id].step \in 0..Steps
            /\ anims[id].step < Steps => Cardinality(IntervalTimers(id)) = 1
            /\ anims[id].step = Steps => (IntervalTimers(id) = {} /\ anims[id].value = target))
    /\ [](AllDone => text = target)
    /\ (anims # <<>>) ~> AllDone
    /\ [][AllDone => text' = text]_vars

(* A counter whose data-count is not a number, at the end of its           *)
(* animation: sixty steps, timer cleared, text NaN.                        *)
C18_Witness ==
    /\ target = NaN
    /\ Len(anims) = 1
    /\ anims[1].step = Steps
    /\ text = NaN
    /\ IntervalTimers(1) = {}

====
